---- MODULE Spec2Model ----
(***************************************************************************)
(* State-machine model of the endless-runner simulation core of            *)
(* src/components/Game3D.tsx: the action surface (startGame, resetGame,    *)
(* moveLeft, moveRight, jump), the frame callback animate() and the two    *)
(* callbacks it emits (onUpdateStats, onGameOver).                         *)
(*                                                                         *)
(* Arithmetic.  The program computes in IEEE doubles.  The model computes  *)
(* in fixed point: every length, speed and velocity is an integer number   *)
(* of 1/10000 world units, so 0.5 is 5000, 0.0001 is 1, 150 is 1500000.    *)
(* Every constant of the program is a whole number of such units; the one  *)
(* product that is not (the lateral smoothing by 0.15) is truncated        *)
(* toward zero.                                                            *)
(*                                                                         *)
(* One comparison of the program is decided by the rounding of doubles:    *)
(* speed < 1.2, after the 0.0001 increments have accumulated.  For it the  *)
(* model also carries the double held in speed bit for bit (speedBits):    *)
(* an integer number of 2^-53, the grid of doubles in [0.5, 1) and a       *)
(* subgrid of the doubles in [1, 2), written as two limbs <<hi, lo>> of    *)
(* base 2^27.  The variable speed is that double rounded to 1/10000.       *)
(***************************************************************************)
EXTENDS Integers, Sequences, FiniteSets

\* ------------------------------------------------------------------
\* Program constants, in units of 1/10000
\* ------------------------------------------------------------------
BASE_SPEED == 5000
SPEED_RAMP == 1
MAX_SPEED == 12000
LANE_WIDTH == 50000
SMOOTH_NUM == 15
SMOOTH_DEN == 100
JUMP_IMPULSE == 4000
GRAVITY == 200
SPAWN_Z == -1500000
OBSTACLE_BAND == 20000
OBSTACLE_XDIST == 20000
CLEARANCE == 18000
CULL_Z == 100000
COIN_BAND == 15000
COIN_XDIST == 15000
COIN_YDIST == 25000
COIN_Y == 15000
RUNNER_CENTRE == 10000

\* Doubles, as multiples of 2^-53 in two limbs of base LIMB = 2^27.
LIMB == 134217728
\* The literal 0.5.
BASE_SPEED_BITS == <<33554432, 0>>
\* 1.0: from here on doubles are the even multiples of 2^-53.
ONE_BITS == <<67108864, 0>>
\* The literal 1.2, i.e. the double nearest to it (a little below 1.2).
MAX_SPEED_BITS == <<80530636, 107374182>>
\* The literal 0.0001 is 900719925474.099... times 2^-53: whole part.
SPEED_RAMP_BITS == <<6710, 118970594>>

\* ------------------------------------------------------------------
\* Bounds of the model (not program constants)
\* ------------------------------------------------------------------
\* Running ticks explored per session (since construction or resetGame),
\* counted from the tick at which the spawn draws may first succeed.
MaxTicks == 316
\* The random spawn draws may succeed only during SpawnWindow ticks of a
\* session, starting at tick spawnFrom.
SpawnWindow == 2
\* Live obstacles / coins at any time.
MaxObstacles == 2
MaxCoins == 1
\* moveLeft/moveRight/jump calls per session.
MaxInputs == 1
\* While Running the player acts only when an entity is at most this many
\* ticks (at the current speed) away from the runner's depth.
ReactTicks == 10
\* Right after resetGame or startGame the player may also act during the
\* first EarlyTicks ticks of the session.
EarlyTicks == 1
\* Running ticks explored per session in the specification with teardown.
TeardownTicks == 45
\* The history counter soundsSinceFrame stops counting here.
MaxAirSounds == 2
\* In the late-spawn specification the spawn draws may succeed only from
\* this tick of a session on (for SpawnWindow ticks).
LateSpawnFrom == 6870

Lanes == {-1, 0, 1}

VARIABLES
    score, speed, distance, lane, isRunning, isGameOver, isJumping,
    jumpVelocity,
    runnerX, runnerY,
    obstacles, coins,
    emitted,
    ticks, inputs, collected, crashed, soundsSinceFrame, soundsSinceCleared,
    lastOp, pre,
    speedBits, spawnFrom,
    pending, requestRef, tornDown

vars == <<score, speed, distance, lane, isRunning, isGameOver, isJumping,
          jumpVelocity, runnerX, runnerY, obstacles, coins, emitted,
          ticks, inputs, collected, crashed, soundsSinceFrame,
          soundsSinceCleared, lastOp, pre, speedBits, spawnFrom,
          pending, requestRef, tornDown>>

\* spawnFrom is fixed by the initial condition: the tick of a session from
\* which the spawn draws may succeed (a bound on the random source).

\* The frame-callback registrations of the hosting component: the handles
\* of the callbacks registered and not yet run or cancelled, the handle
\* held in requestRef, and whether the effect's cleanup has run.
hosting == <<pending, requestRef, tornDown>>

\* ------------------------------------------------------------------
\* Helpers
\* ------------------------------------------------------------------
Abs(a) == IF a < 0 THEN 0 - a ELSE a

\* a * n / d truncated toward zero
MulDiv(a, n, d) == IF a >= 0 THEN (a * n) \div d ELSE 0 - (((0 - a) * n) \div d)

RemoveAt(s, i) == [k \in 1..(Len(s) - 1) |-> IF k < i THEN s[k] ELSE s[k + 1]]

Running == isRunning /\ ~isGameOver

\* Two-limb arithmetic on doubles of [0.5, 2).
BitsLess(a, b) == a[1] < b[1] \/ (a[1] = b[1] /\ a[2] < b[2])

BitsAdd(a, b) ==
    LET lo == a[2] + b[2]
    IN  <<a[1] + b[1] + (lo \div LIMB), lo % LIMB>>

\* s + 0.0001 in round-to-nearest: the exact sum lies 0.099 of a unit above
\* t; below 1.0 the nearest double is t, from 1.0 on it is the nearest even
\* multiple, which is t when t is even and t + 1 when t is odd.
AddRamp(s) ==
    LET t == BitsAdd(s, SPEED_RAMP_BITS)
    IN  IF BitsLess(t, ONE_BITS) \/ t[2] % 2 = 0 THEN t
        ELSE BitsAdd(t, <<0, 1>>)

\* What a step remembers of the state it started in (history only).
Snapshot ==
    [isRunning |-> isRunning, isGameOver |-> isGameOver,
     isJumping |-> isJumping, lane |-> lane, score |-> score,
     crashed |-> crashed,
     nObstacles |-> Len(obstacles), nCoins |-> Len(coins)]

\* Callback and sound-effect events, in the order the step produced them.
GameOverEvent(s) == [cb |-> "onGameOver", score |-> s, speed |-> 0, distance |-> 0]
StatsEvent(s, v, d) == [cb |-> "onUpdateStats", score |-> s, speed |-> v, distance |-> d]
SoundEvent(name) == [cb |-> name, score |-> 0, speed |-> 0, distance |-> 0]

\* ------------------------------------------------------------------
\* Environment bounds
\* ------------------------------------------------------------------
Approaching(e) ==
    /\ e.z + ReactTicks * speed > 0 - OBSTACLE_BAND
    /\ e.z < OBSTACLE_BAND

Near ==
    \/ \E i \in DOMAIN obstacles : Approaching(obstacles[i])
    \/ \E i \in DOMAIN coins : Approaching(coins[i])

\* The player's side of the interface: a call the interface documents as
\* accepted counts against MaxInputs; a call it documents as ignored (at the
\* lane edge, in mid-air, after game over) is free.
Charged(op) ==
    /\ ~isGameOver
    /\ op = "moveLeft" => lane > -1
    /\ op = "moveRight" => lane < 1
    /\ op = "jump" => ~isJumping

CanAct(op) ==
    /\ Charged(op) => inputs < MaxInputs
    /\ Running => (Near \/ ticks < EarlyTicks)

Spend(op) == IF Charged(op) THEN inputs + 1 ELSE inputs


\* Lateral smoothing has reached its fixed point and the runner is grounded.
LateralStep(x, l) == x + MulDiv(l * LANE_WIDTH - x, SMOOTH_NUM, SMOOTH_DEN)

AtRest == ~isJumping /\ LateralStep(runnerX, lane) = runnerX

\* ------------------------------------------------------------------
\* Action surface
\* ------------------------------------------------------------------
startGame ==
    /\ AtRest
    /\ isRunning' = TRUE
    /\ isGameOver' = FALSE
    /\ emitted' = << >>
    /\ lastOp' = "startGame"
    /\ UNCHANGED hosting
    /\ pre' = Snapshot
    /\ UNCHANGED <<score, speed, distance, lane, isJumping, jumpVelocity,
                   runnerX, runnerY, obstacles, coins, ticks, inputs, collected,
                   crashed, soundsSinceFrame, soundsSinceCleared, speedBits,
                   spawnFrom>>

\* Mutant: the object literal carries the jump flag over instead of clearing it.
ResetState_KeepsJump ==
    [score |-> 0, speed |-> BASE_SPEED, distance |-> 0, lane |-> 0,
     isRunning |-> TRUE, isGameOver |-> FALSE, isJumping |-> isJumping,
     jumpVelocity |-> 0]

\* The object literal resetGame assigns to stateRef.current.
ResetState ==
    [score |-> 0, speed |-> BASE_SPEED, distance |-> 0, lane |-> 0,
     isRunning |-> TRUE, isGameOver |-> FALSE, isJumping |-> FALSE,
     jumpVelocity |-> 0]

resetGame ==
    /\ score' = ResetState.score
    /\ speed' = ResetState.speed
    /\ distance' = ResetState.distance
    /\ lane' = ResetState.lane
    /\ isRunning' = ResetState.isRunning
    /\ isGameOver' = ResetState.isGameOver
    /\ isJumping' = ResetState.isJumping
    /\ jumpVelocity' = ResetState.jumpVelocity
    /\ runnerX' = 0
    /\ runnerY' = 0
    /\ obstacles' = << >>
    /\ coins' = << >>
    /\ emitted' = << >>
    /\ ticks' = 0
    /\ inputs' = 0
    /\ collected' = {}
    /\ crashed' = FALSE
    /\ lastOp' = "resetGame"
    /\ UNCHANGED hosting
    /\ pre' = Snapshot
    /\ soundsSinceCleared' = 0
    /\ speedBits' = BASE_SPEED_BITS
    /\ UNCHANGED <<soundsSinceFrame, spawnFrom>>

\* Mutant: the lower clamp is missing.
CanMoveLeft_NoClamp == ~isGameOver

CanMoveLeft == lane > -1 /\ ~isGameOver

\* Mutant: the call also moves the runner to the new lane's centre.
moveLeft_SnapsRunner ==
    LET moves == CanMoveLeft
    IN  /\ CanAct("moveLeft")
        /\ lane' = IF moves THEN lane - 1 ELSE lane
        /\ runnerX' = lane' * LANE_WIDTH
        /\ emitted' = << >>
        /\ inputs' = Spend("moveLeft")
        /\ lastOp' = "moveLeft"
        /\ UNCHANGED hosting
        /\ pre' = Snapshot
        /\ UNCHANGED <<score, speed, distance, isRunning, isGameOver, isJumping,
                       jumpVelocity, runnerY, obstacles, coins, ticks,
                       collected, crashed, soundsSinceFrame,
                       soundsSinceCleared, speedBits, spawnFrom>>

moveLeft ==
    LET moves == CanMoveLeft
    IN  /\ CanAct("moveLeft")
        /\ lane' = IF moves THEN lane - 1 ELSE lane
        /\ emitted' = << >>
        /\ inputs' = Spend("moveLeft")
        /\ lastOp' = "moveLeft"
        /\ UNCHANGED hosting
        /\ pre' = Snapshot
        /\ UNCHANGED <<score, speed, distance, isRunning, isGameOver, isJumping,
                       jumpVelocity, runnerX, runnerY, obstacles, coins, ticks,
                       collected, crashed, soundsSinceFrame,
                       soundsSinceCleared, speedBits, spawnFrom>>

CanMoveRight == lane < 1 /\ ~isGameOver

moveRight ==
    LET moves == CanMoveRight
    IN  /\ CanAct("moveRight")
        /\ lane' = IF moves THEN lane + 1 ELSE lane
        /\ emitted' = << >>
        /\ inputs' = Spend("moveRight")
        /\ lastOp' = "moveRight"
        /\ UNCHANGED hosting
        /\ pre' = Snapshot
        /\ UNCHANGED <<score, speed, distance, isRunning, isGameOver, isJumping,
                       jumpVelocity, runnerX, runnerY, obstacles, coins, ticks,
                       collected, crashed, soundsSinceFrame,
                       soundsSinceCleared, speedBits, spawnFrom>>

\* Mutant: jump is accepted after game over.
CanJump_InGameOver == ~isJumping

\* Mutant: jump is accepted in mid-air.
CanJump_InMidAir == ~isGameOver

CanJump == ~isJumping /\ ~isGameOver

jump ==
    LET jumps == CanJump
    IN  /\ CanAct("jump")
        /\ IF jumps
           THEN /\ isJumping' = TRUE
                /\ jumpVelocity' = JUMP_IMPULSE
                /\ emitted' = <<SoundEvent("jumpSound")>>
                /\ soundsSinceFrame' = IF soundsSinceFrame < MaxAirSounds
                                       THEN soundsSinceFrame + 1
                                       ELSE soundsSinceFrame
                /\ soundsSinceCleared' = soundsSinceCleared + 1
           ELSE /\ UNCHANGED <<isJumping, jumpVelocity, soundsSinceFrame,
                               soundsSinceCleared>>
                /\ emitted' = << >>
        /\ inputs' = Spend("jump")
        /\ lastOp' = "jump"
        /\ UNCHANGED hosting
        /\ pre' = Snapshot
        /\ UNCHANGED <<score, speed, distance, lane, isRunning, isGameOver,
                       runnerX, runnerY, obstacles, coins, ticks, collected,
                       crashed, speedBits, spawnFrom>>

\* ------------------------------------------------------------------
\* The frame callback
\* ------------------------------------------------------------------
\* requestAnimationFrame: registers a callback under a handle that names no
\* other registered callback (p: the handles registered at the call).
requestAnimationFrame(p) ==
    CHOOSE n \in 1..(Cardinality(p) + 1) :
        n \notin p /\ \A k \in 1..(n - 1) : k \in p

\* Mutant: cancelling does nothing.
cancelAnimationFrame_Noop(p, h) == p

\* cancelAnimationFrame: a handle that names no registered callback is
\* ignored.
cancelAnimationFrame(p, h) == p \ {h}

\* Mutant: the runner lands only once it is below the ground.
Physics_StrictLanding ==
    LET x1 == LateralStep(runnerX, lane)
        y1 == runnerY + jumpVelocity
        landed == y1 < 0
    IN  IF isJumping
        THEN [x |-> x1,
              y |-> IF landed THEN 0 ELSE y1,
              v |-> jumpVelocity - GRAVITY,
              j |-> ~landed]
        ELSE [x |-> x1, y |-> runnerY, v |-> jumpVelocity, j |-> FALSE]

\* Mutant: gravity is never applied to the jump velocity.
Physics_NoGravity ==
    LET x1 == LateralStep(runnerX, lane)
        y1 == runnerY + jumpVelocity
        landed == y1 <= 0
    IN  IF isJumping
        THEN [x |-> x1,
              y |-> IF landed THEN 0 ELSE y1,
              v |-> jumpVelocity,
              j |-> ~landed]
        ELSE [x |-> x1, y |-> runnerY, v |-> jumpVelocity, j |-> FALSE]

\* Section 2 of animate: lateral smoothing and jump physics.  It runs in
\* every frame, before the early return for a game that is not running.
Physics ==
    LET x1 == LateralStep(runnerX, lane)
        y1 == runnerY + jumpVelocity
        landed == y1 <= 0
    IN  IF isJumping
        THEN [x |-> x1,
              y |-> IF landed THEN 0 ELSE y1,
              v |-> jumpVelocity - GRAVITY,
              j |-> ~landed]
        ELSE [x |-> x1, y |-> runnerY, v |-> jumpVelocity, j |-> FALSE]

\* inBand is history: whether a tick has yet found the entity inside its
\* collision band.
spawnObstacle(obs, l, id) ==
    Append(obs, [x |-> l * LANE_WIDTH, z |-> SPAWN_Z, id |-> id,
                 inBand |-> FALSE])

spawnCoin(cs, l, id) ==
    Append(cs, [x |-> l * LANE_WIDTH, y |-> COIN_Y, z |-> SPAWN_Z, id |-> id,
                inBand |-> FALSE])

\* Mutant: gameOver() leaves isRunning set.
gameOver_KeepsRunning(acc) ==
    [acc EXCEPT !.isGameOver = TRUE,
                !.emitted = Append(@, GameOverEvent(acc.score))]

\* gameOver(): both flags, then the callback with the score of the moment.
gameOver(acc) ==
    [acc EXCEPT !.isRunning = FALSE,
                !.isGameOver = TRUE,
                !.emitted = Append(@, GameOverEvent(acc.score))]

\* Mutant: the height check is missing.
ObstacleHit_NoClearance(z, x, rx, ry) ==
    /\ z > 0 - OBSTACLE_BAND
    /\ z < OBSTACLE_BAND
    /\ Abs(x - rx) < OBSTACLE_XDIST

\* Mutant: the band is thinner than one tick's translation.
ObstacleHit_ThinBand(z, x, rx, ry) ==
    /\ z > 0
    /\ z < SPEED_RAMP
    /\ Abs(x - rx) < OBSTACLE_XDIST
    /\ ry < CLEARANCE

ObstacleHit(z, x, rx, ry) ==
    /\ z > 0 - OBSTACLE_BAND
    /\ z < OBSTACLE_BAND
    /\ Abs(x - rx) < OBSTACLE_XDIST
    /\ ry < CLEARANCE

\* Mutant: the collision test reads the obstacle's depth before the
\* translation of the tick.
RECURSIVE ObstacleLoop_TestBeforeMove(_, _, _, _, _)
ObstacleLoop_TestBeforeMove(i, acc, v, rx, ry) ==
    IF i = 0 THEN acc
    ELSE LET z1 == acc.obstacles[i].z + v
             moved == [acc EXCEPT !.obstacles[i].z = z1,
                                  !.obstacles[i].inBand =
                                      @ \/ (z1 > 0 - OBSTACLE_BAND
                                            /\ z1 < OBSTACLE_BAND)]
             hit == IF ObstacleHit(acc.obstacles[i].z, acc.obstacles[i].x,
                                   rx, ry)
                    THEN gameOver([moved EXCEPT !.emitted =
                                      Append(@, SoundEvent("crashSound"))])
                    ELSE moved
             culled == IF z1 > CULL_Z
                       THEN [hit EXCEPT !.obstacles = RemoveAt(@, i)]
                       ELSE hit
         IN  ObstacleLoop_TestBeforeMove(i - 1, culled, v, rx, ry)

\* Mutant: obstacles behind the camera are never removed.
RECURSIVE ObstacleLoop_NoCull(_, _, _, _, _)
ObstacleLoop_NoCull(i, acc, v, rx, ry) ==
    IF i = 0 THEN acc
    ELSE LET z1 == acc.obstacles[i].z + v
             moved == [acc EXCEPT !.obstacles[i].z = z1,
                                  !.obstacles[i].inBand =
                                      @ \/ (z1 > 0 - OBSTACLE_BAND
                                            /\ z1 < OBSTACLE_BAND)]
             hit == IF ObstacleHit(z1, acc.obstacles[i].x, rx, ry)
                    THEN gameOver([moved EXCEPT !.emitted =
                                      Append(@, SoundEvent("crashSound"))])
                    ELSE moved
         IN  ObstacleLoop_NoCull(i - 1, hit, v, rx, ry)

\* The obstacle loop, from the last index down to the first.
RECURSIVE ObstacleLoop(_, _, _, _, _)
ObstacleLoop(i, acc, v, rx, ry) ==
    IF i = 0 THEN acc
    ELSE LET z1 == acc.obstacles[i].z + v
             moved == [acc EXCEPT !.obstacles[i].z = z1,
                                  !.obstacles[i].inBand =
                                      @ \/ (z1 > 0 - OBSTACLE_BAND
                                            /\ z1 < OBSTACLE_BAND)]
             hit == IF ObstacleHit(z1, acc.obstacles[i].x, rx, ry)
                    THEN gameOver([moved EXCEPT !.emitted =
                                      Append(@, SoundEvent("crashSound"))])
                    ELSE moved
             culled == IF z1 > CULL_Z
                       THEN [hit EXCEPT !.obstacles = RemoveAt(@, i)]
                       ELSE hit
         IN  ObstacleLoop(i - 1, culled, v, rx, ry)

CoinHit(c, z, rx, ry) ==
    /\ z > 0 - COIN_BAND
    /\ z < COIN_BAND
    /\ Abs(c.x - rx) < COIN_XDIST
    /\ Abs(c.y - ry - RUNNER_CENTRE) < COIN_YDIST

\* Mutant: a collected coin is scored but stays in the store.
RECURSIVE CoinLoop_NoSplice(_, _, _, _, _)
CoinLoop_NoSplice(i, acc, v, rx, ry) ==
    IF i = 0 THEN acc
    ELSE LET z1 == acc.coins[i].z + v
             moved == [acc EXCEPT !.coins[i].z = z1,
                                  !.coins[i].inBand =
                                      @ \/ (z1 > 0 - COIN_BAND
                                            /\ z1 < COIN_BAND)]
             next ==
                 IF CoinHit(acc.coins[i], z1, rx, ry)
                 THEN [moved EXCEPT !.score = @ + 1,
                                    !.emitted = Append(@, SoundEvent("coinSound")),
                                    !.collected = @ \cup {acc.coins[i].id}]
                 ELSE IF z1 > CULL_Z
                      THEN [moved EXCEPT !.coins = RemoveAt(@, i)]
                      ELSE moved
         IN  CoinLoop_NoSplice(i - 1, next, v, rx, ry)

\* The coin loop, from the last index down to the first.
RECURSIVE CoinLoop(_, _, _, _, _)
CoinLoop(i, acc, v, rx, ry) ==
    IF i = 0 THEN acc
    ELSE LET z1 == acc.coins[i].z + v
             moved == [acc EXCEPT !.coins[i].z = z1,
                                  !.coins[i].inBand =
                                      @ \/ (z1 > 0 - COIN_BAND
                                            /\ z1 < COIN_BAND)]
             next ==
                 IF CoinHit(acc.coins[i], z1, rx, ry)
                 THEN [moved EXCEPT !.score = @ + 1,
                                    !.emitted = Append(@, SoundEvent("coinSound")),
                                    !.collected = @ \cup {acc.coins[i].id},
                                    !.coins = RemoveAt(@, i)]
                 ELSE IF z1 > CULL_Z
                      THEN [moved EXCEPT !.coins = RemoveAt(@, i)]
                      ELSE moved
         IN  CoinLoop(i - 1, next, v, rx, ry)

NoDraw == [spawn |-> FALSE, lane |-> 0]

Draws(n, max) ==
    IF ticks >= spawnFrom /\ ticks < spawnFrom + SpawnWindow /\ n < max
    THEN {NoDraw} \cup {[spawn |-> TRUE, lane |-> l] : l \in Lanes}
    ELSE {NoDraw}

\* Mutant: distance accrues the speed after the ramp, not the speed the
\* entities were translated by.
Gameplay_DistanceAfterRamp(ph, dO, dC) ==
    LET v == speed
        obs0 == IF dO.spawn THEN spawnObstacle(obstacles, dO.lane, ticks)
                ELSE obstacles
        cs0 == IF dC.spawn THEN spawnCoin(coins, dC.lane, ticks) ELSE coins
        acc0 == [obstacles |-> obs0, coins |-> cs0, score |-> score,
                 isRunning |-> isRunning, isGameOver |-> isGameOver,
                 emitted |-> << >>, collected |-> collected,
                 distance |-> distance, speed |-> speed,
                 speedBits |-> speedBits]
        acc1 == ObstacleLoop(Len(obs0), acc0, v, ph.x, ph.y)
        acc2 == CoinLoop(Len(cs0), acc1, v, ph.x, ph.y)
        ramps == BitsLess(speedBits, MAX_SPEED_BITS)
        speed1 == IF ramps THEN speed + SPEED_RAMP ELSE speed
        dist1 == distance + speed1
    IN  [acc2 EXCEPT !.distance = dist1,
                     !.speed = speed1,
                     !.speedBits = IF ramps THEN AddRamp(@) ELSE @,
                     !.emitted = Append(@, StatsEvent(acc2.score, speed1, dist1))]

\* Mutant: the snapshot is taken before the speed ramp.
Gameplay_StatsBeforeRamp(ph, dO, dC) ==
    LET v == speed
        obs0 == IF dO.spawn THEN spawnObstacle(obstacles, dO.lane, ticks)
                ELSE obstacles
        cs0 == IF dC.spawn THEN spawnCoin(coins, dC.lane, ticks) ELSE coins
        acc0 == [obstacles |-> obs0, coins |-> cs0, score |-> score,
                 isRunning |-> isRunning, isGameOver |-> isGameOver,
                 emitted |-> << >>, collected |-> collected,
                 distance |-> distance, speed |-> speed,
                 speedBits |-> speedBits]
        acc1 == ObstacleLoop(Len(obs0), acc0, v, ph.x, ph.y)
        acc2 == CoinLoop(Len(cs0), acc1, v, ph.x, ph.y)
        dist1 == distance + v
        ramps == BitsLess(speedBits, MAX_SPEED_BITS)
        speed1 == IF ramps THEN speed + SPEED_RAMP ELSE speed
    IN  [acc2 EXCEPT !.distance = dist1,
                     !.speed = speed1,
                     !.speedBits = IF ramps THEN AddRamp(@) ELSE @,
                     !.emitted = Append(@, StatsEvent(acc2.score, speed, dist1))]

\* Mutant: a tick that crashed skips the snapshot.
Gameplay_NoStatsOnCrash(ph, dO, dC) ==
    LET v == speed
        obs0 == IF dO.spawn THEN spawnObstacle(obstacles, dO.lane, ticks)
                ELSE obstacles
        cs0 == IF dC.spawn THEN spawnCoin(coins, dC.lane, ticks) ELSE coins
        acc0 == [obstacles |-> obs0, coins |-> cs0, score |-> score,
                 isRunning |-> isRunning, isGameOver |-> isGameOver,
                 emitted |-> << >>, collected |-> collected,
                 distance |-> distance, speed |-> speed,
                 speedBits |-> speedBits]
        acc1 == ObstacleLoop(Len(obs0), acc0, v, ph.x, ph.y)
        acc2 == CoinLoop(Len(cs0), acc1, v, ph.x, ph.y)
        dist1 == distance + v
        ramps == BitsLess(speedBits, MAX_SPEED_BITS)
        speed1 == IF ramps THEN speed + SPEED_RAMP ELSE speed
    IN  [acc2 EXCEPT !.distance = dist1,
                     !.speed = speed1,
                     !.speedBits = IF ramps THEN AddRamp(@) ELSE @,
                     !.emitted = IF acc2.isGameOver THEN @
                                 ELSE Append(@, StatsEvent(acc2.score, speed1,
                                                           dist1))]

\* Mutant: the entities are translated by four times the speed, which at
\* the speeds near the cap is more than a band is wide.
Gameplay_LongStride(ph, dO, dC) ==
    LET v == 4 * speed
        obs0 == IF dO.spawn THEN spawnObstacle(obstacles, dO.lane, ticks)
                ELSE obstacles
        cs0 == IF dC.spawn THEN spawnCoin(coins, dC.lane, ticks) ELSE coins
        acc0 == [obstacles |-> obs0, coins |-> cs0, score |-> score,
                 isRunning |-> isRunning, isGameOver |-> isGameOver,
                 emitted |-> << >>, collected |-> collected,
                 distance |-> distance, speed |-> speed,
                 speedBits |-> speedBits]
        acc1 == ObstacleLoop(Len(obs0), acc0, v, ph.x, ph.y)
        acc2 == CoinLoop(Len(cs0), acc1, v, ph.x, ph.y)
        dist1 == distance + v
        ramps == BitsLess(speedBits, MAX_SPEED_BITS)
        speed1 == IF ramps THEN speed + SPEED_RAMP ELSE speed
    IN  [acc2 EXCEPT !.distance = dist1,
                     !.speed = speed1,
                     !.speedBits = IF ramps THEN AddRamp(@) ELSE @,
                     !.emitted = Append(@, StatsEvent(acc2.score, speed1, dist1))]

\* Section 3 of animate for one outcome of the two spawn draws.
Gameplay(ph, dO, dC) ==
    LET v == speed
        obs0 == IF dO.spawn THEN spawnObstacle(obstacles, dO.lane, ticks)
                ELSE obstacles
        cs0 == IF dC.spawn THEN spawnCoin(coins, dC.lane, ticks) ELSE coins
        acc0 == [obstacles |-> obs0, coins |-> cs0, score |-> score,
                 isRunning |-> isRunning, isGameOver |-> isGameOver,
                 emitted |-> << >>, collected |-> collected,
                 distance |-> distance, speed |-> speed,
                 speedBits |-> speedBits]
        acc1 == ObstacleLoop(Len(obs0), acc0, v, ph.x, ph.y)
        acc2 == CoinLoop(Len(cs0), acc1, v, ph.x, ph.y)
        dist1 == distance + v
        ramps == BitsLess(speedBits, MAX_SPEED_BITS)
        speed1 == IF ramps THEN speed + SPEED_RAMP ELSE speed
    IN  [acc2 EXCEPT !.distance = dist1,
                     !.speed = speed1,
                     !.speedBits = IF ramps THEN AddRamp(@) ELSE @,
                     !.emitted = Append(@, StatsEvent(acc2.score, speed1, dist1))]

animate ==
    LET ph == Physics
    IN  /\ \E h \in pending :
               LET n == requestAnimationFrame(pending \ {h})
               IN  /\ pending' = (pending \ {h}) \cup {n}
                   /\ requestRef' = n
        /\ UNCHANGED tornDown
        /\ runnerX' = ph.x
        /\ runnerY' = ph.y
        /\ jumpVelocity' = ph.v
        /\ isJumping' = ph.j
        /\ soundsSinceFrame' = IF ph.j THEN soundsSinceFrame ELSE 0
        /\ soundsSinceCleared' = IF ph.j THEN soundsSinceCleared ELSE 0
        /\ lastOp' = "animate"
        /\ pre' = Snapshot
        /\ UNCHANGED <<lane, inputs, spawnFrom>>
        /\ IF ~isRunning \/ isGameOver
           THEN /\ emitted' = << >>
                /\ UNCHANGED <<score, speed, distance, isRunning, isGameOver,
                               obstacles, coins, ticks, collected, crashed,
                               speedBits>>
           ELSE /\ ticks < spawnFrom + MaxTicks
                /\ \E dO \in Draws(Len(obstacles), MaxObstacles),
                      dC \in Draws(Len(coins), MaxCoins) :
                      LET g == Gameplay(ph, dO, dC)
                      IN  /\ obstacles' = g.obstacles
                          /\ coins' = g.coins
                          /\ score' = g.score
                          /\ isRunning' = g.isRunning
                          /\ isGameOver' = g.isGameOver
                          /\ emitted' = g.emitted
                          /\ collected' = g.collected
                          /\ crashed' = (crashed \/ g.isGameOver)
                          /\ distance' = g.distance
                          /\ speed' = g.speed
                          /\ speedBits' = g.speedBits
                /\ ticks' = ticks + 1

\* ------------------------------------------------------------------
\* Specification
\* ------------------------------------------------------------------
Init ==
    /\ score = 0
    /\ speed = BASE_SPEED
    /\ distance = 0
    /\ lane = 0
    /\ isRunning = FALSE
    /\ isGameOver = FALSE
    /\ isJumping = FALSE
    /\ jumpVelocity = 0
    /\ runnerX = 0
    /\ runnerY = 0
    /\ obstacles = << >>
    /\ coins = << >>
    /\ emitted = << >>
    /\ ticks = 0
    /\ inputs = 0
    /\ collected = {}
    /\ crashed = FALSE
    /\ soundsSinceFrame = 0
    /\ soundsSinceCleared = 0
    /\ lastOp = "init"
    /\ pre = Snapshot
    /\ speedBits = BASE_SPEED_BITS
    /\ spawnFrom = 0
    /\ pending = {1}
    /\ requestRef = 1
    /\ tornDown = FALSE

Next ==
    \/ animate
    \/ startGame
    \/ resetGame
    \/ moveLeft
    \/ moveRight
    \/ jump

Spec == Init /\ [][Next]_vars

\* The same program after the same construction, with the spawn draws
\* succeeding late in the session instead of at its start: the sessions in
\* which the speed ramp reaches its cap.
InitLate ==
    /\ score = 0
    /\ speed = BASE_SPEED
    /\ distance = 0
    /\ lane = 0
    /\ isRunning = FALSE
    /\ isGameOver = FALSE
    /\ isJumping = FALSE
    /\ jumpVelocity = 0
    /\ runnerX = 0
    /\ runnerY = 0
    /\ obstacles = << >>
    /\ coins = << >>
    /\ emitted = << >>
    /\ ticks = 0
    /\ inputs = 0
    /\ collected = {}
    /\ crashed = FALSE
    /\ soundsSinceFrame = 0
    /\ soundsSinceCleared = 0
    /\ lastOp = "init"
    /\ pre = Snapshot
    /\ speedBits = BASE_SPEED_BITS
    /\ spawnFrom = LateSpawnFrom
    /\ pending = {1}
    /\ requestRef = 1
    /\ tornDown = FALSE

SpecLate == InitLate /\ [][Next]_vars

\* Every entity on the track after the step is in the centre lane.
CentreLaneDraws ==
    /\ \A i \in DOMAIN obstacles' : obstacles'[i].x = 0
    /\ \A i \in DOMAIN coins' : coins'[i].x = 0

\* The program under a player who stands still during the run (moveLeft,
\* moveRight, jump and resetGame are called only once the game is over),
\* spawn draws that pick the centre lane, and a browser that keeps running
\* the registered frame callback.
NextHeadOn ==
    \/ animate /\ CentreLaneDraws
    \/ startGame
    \/ isGameOver /\ resetGame
    \/ isGameOver /\ moveLeft
    \/ isGameOver /\ moveRight
    \/ isGameOver /\ jump

SpecHeadOn == Init /\ [][NextHeadOn]_vars /\ WF_vars(animate)

\* The cleanup of the mounting effect: the part that touches the loop is
\* cancelAnimationFrame(requestRef.current).  React runs it once.
teardown ==
    /\ ~tornDown
    /\ tornDown' = TRUE
    /\ pending' = cancelAnimationFrame(pending, requestRef)
    /\ emitted' = << >>
    /\ lastOp' = "teardown"
    /\ pre' = Snapshot
    /\ UNCHANGED <<score, speed, distance, lane, isRunning, isGameOver,
                   isJumping, jumpVelocity, runnerX, runnerY, obstacles, coins,
                   ticks, inputs, collected, crashed, soundsSinceFrame,
                   soundsSinceCleared, speedBits, spawnFrom, requestRef>>

\* The program with the teardown of its hosting component, followed for the
\* first TeardownTicks ticks of a session.  The action surface stays
\* callable after teardown: the functions are still held by the parent.
NextTeardown ==
    \/ teardown
    \/ ticks < TeardownTicks /\ animate
    \/ startGame
    \/ resetGame
    \/ moveLeft
    \/ moveRight
    \/ jump

SpecTeardown == Init /\ [][NextTeardown]_vars

\* ------------------------------------------------------------------
\* Properties
\* ------------------------------------------------------------------
Count(cb) == Cardinality({i \in DOMAIN emitted : emitted[i].cb = cb})

CoreUnchanged ==
    UNCHANGED <<score, speed, distance, lane, isRunning, isGameOver,
                isJumping, jumpVelocity, runnerX, runnerY, obstacles, coins>>

\* C1: a tick calls onGameOver at most once, however many obstacles
\* collide in it, and only a tick that began in Running calls it at all.
C1_OnGameOverOncePerTick ==
    /\ Count("onGameOver") <= 1
    /\ Count("onGameOver") >= 1 =>
           lastOp = "animate" /\ pre.isRunning /\ ~pre.isGameOver

\* C2: once a collision has fired onGameOver, no onUpdateStats follows:
\* not later in the same tick, not in a later tick before resetGame.
C2_NoStatsAfterGameOver ==
    \A j \in DOMAIN emitted :
        emitted[j].cb = "onUpdateStats" =>
            /\ ~pre.crashed
            /\ \A i \in 1..(j - 1) : emitted[i].cb # "onGameOver"

\* C3: resetGame, from any state, leaves a Running game with lane 0, base
\* speed, zero score and distance, no jump in progress, the runner at the
\* origin and both stores empty.
C3_ResetReinitialises ==
    lastOp = "resetGame" =>
        /\ isRunning /\ ~isGameOver
        /\ lane = 0 /\ speed = BASE_SPEED /\ score = 0 /\ distance = 0
        /\ ~isJumping /\ jumpVelocity = 0
        /\ runnerX = 0 /\ runnerY = 0
        /\ obstacles = << >> /\ coins = << >>

\* C3 witness: resetGame was called after a crash in mid-air, with obstacles
\* still on the track.
C3_Witness ==
    /\ lastOp = "resetGame"
    /\ pre.isGameOver /\ pre.isJumping /\ pre.nObstacles > 0

\* C4: startGame called in Idle or GameOver leaves a Running game with
\* score 0, distance 0 and the base speed.
C4_StartFreshCounters ==
    (lastOp = "startGame" /\ ~pre.isRunning) =>
        /\ isRunning /\ ~isGameOver
        /\ score = 0 /\ distance = 0 /\ speed = BASE_SPEED

\* C5: lane stays in {-1, 0, 1}; moveLeft at lane -1 and moveRight at
\* lane 1 leave it unchanged.
C5_LaneInRange ==
    /\ lane \in Lanes
    /\ (lastOp = "moveLeft" /\ pre.lane = -1) => lane = -1
    /\ (lastOp = "moveRight" /\ pre.lane = 1) => lane = 1

\* C5 witness: moveLeft was called at the left edge of a game that is not over.
C5_Witness ==
    lastOp = "moveLeft" /\ pre.lane = -1 /\ ~pre.isGameOver /\ lane = -1

\* C6: while isGameOver, moveLeft, moveRight and jump change nothing and
\* trigger no sound.
C6_InputsIgnoredAfterGameOver ==
    [][(isGameOver /\ (moveLeft \/ moveRight \/ jump)) =>
           (CoreUnchanged /\ emitted' = << >>)]_vars

\* C6 witness: jump was called on the ground in a game that is over.
C6_Witness ==
    lastOp = "jump" /\ pre.isGameOver /\ ~pre.isJumping /\ isGameOver

\* C7 (as amended): jump while isJumping changes nothing and triggers no
\* sound, and at most one jump sound is triggered between two consecutive
\* clearings of isJumping (a landing or a resetGame).
C7_JumpInMidAirIgnored ==
    /\ [](soundsSinceCleared <= 1)
    /\ [][(isJumping /\ jump) => (CoreUnchanged /\ emitted' = << >>)]_vars

\* C7 witness: jump was called in mid-air in a game that is not over.
C7_Witness ==
    /\ lastOp = "jump" /\ pre.isJumping /\ ~pre.isGameOver
    /\ runnerY > 0 /\ soundsSinceCleared = 1

\* C7 (as claimed): at most one jump sound between two consecutive landings.
\* soundsSinceFrame counts the jump sounds since a frame last left the runner
\* on the ground, which every landing frame does.
C7_OneSoundPerLanding == soundsSinceFrame <= 1

\* C8: score counts each collected coin once: it equals the number of coins
\* removed by collision since resetGame, no collected coin is left in the
\* store, a tick raises it by the coins it removed and nothing else but
\* resetGame changes it.
C8_CoinsCountedOnce ==
    /\ score = Cardinality(collected)
    /\ \A i \in DOMAIN coins : coins[i].id \notin collected
    /\ score # pre.score => lastOp \in {"animate", "resetGame"}
    /\ lastOp = "animate" =>
           /\ score - pre.score = Count("coinSound")
           /\ score - pre.score <= pre.nCoins + 1
           /\ ~(pre.isRunning /\ ~pre.isGameOver) => score = pre.score
    /\ lastOp = "resetGame" => score = 0

\* C8 witness: a tick collected a coin.
C8_Witness ==
    lastOp = "animate" /\ score = pre.score + 1 /\ Count("coinSound") = 1

InBandClosed(z) == z >= 0 - OBSTACLE_BAND /\ z <= OBSTACLE_BAND

Overlaps(o) ==
    /\ InBandClosed(o.z)
    /\ Abs(o.x - runnerX) < OBSTACLE_XDIST

C10_IdleTickChangesNothing ==
    [][(~Running /\ animate) => (CoreUnchanged /\ emitted' = << >>)]_vars

\* C11: speed never exceeds MAX_SPEED and never drops below the base speed,
\* and no step lowers it except resetGame.
C11_SpeedWithinCap ==
    /\ [](BASE_SPEED <= speed /\ speed <= MAX_SPEED)
    /\ [][speed' < speed => lastOp' = "resetGame"]_vars

\* Every entity that is in its store before and after the step has moved
\* toward the camera by exactly v.
TranslatedBy(v) ==
    /\ \A i \in DOMAIN obstacles : \A j \in DOMAIN obstacles' :
           obstacles[i].id = obstacles'[j].id =>
               obstacles'[j].z = obstacles[i].z + v
    /\ \A i \in DOMAIN coins : \A j \in DOMAIN coins' :
           coins[i].id = coins'[j].id => coins'[j].z = coins[i].z + v

\* C12: after N Running ticks since resetGame (or construction) without a
\* collision, distance is the sum of the speeds in effect at the start of
\* those ticks: each tick adds the speed it translates its entities by, the
\* speeds are the base speed plus one increment per tick for the first
\* speed - BASE_SPEED ticks and constant afterwards, and distance never
\* decreases while Running except by resetGame.
C12_DistanceIsSumOfSpeeds ==
    /\ [](~crashed =>
            LET r == speed - BASE_SPEED
            IN  /\ r >= 0 /\ r <= ticks * SPEED_RAMP
                /\ distance = BASE_SPEED * ticks + (r * (r - 1)) \div 2
                                  + (ticks - r) * r)
    /\ [][(Running /\ animate) =>
              (distance' = distance + speed /\ TranslatedBy(speed))]_vars
    /\ [][(Running /\ distance' < distance) => lastOp' = "resetGame"]_vars

\* C12 witness: a session without collision has run past the end of the
\* speed ramp with an obstacle still on the track.
C12_Witness ==
    /\ lastOp = "animate" /\ ~crashed /\ Running
    /\ ticks > MAX_SPEED - BASE_SPEED
    /\ Len(obstacles) > 0 /\ distance > 0

\* C13: once isGameOver is true, no step but resetGame makes it false.
C13_GameOverTerminal ==
    [][(isGameOver /\ ~isGameOver') => lastOp' = "resetGame"]_vars

\* C14: every snapshot a tick passes to onUpdateStats carries the score,
\* speed and distance of the state the tick ends in, and nothing is emitted
\* after it in that tick.
C14_SnapshotIsFinal ==
    \A i \in DOMAIN emitted :
        emitted[i].cb = "onUpdateStats" =>
            /\ emitted[i].score = score
            /\ emitted[i].speed = speed
            /\ emitted[i].distance = distance
            /\ i = Len(emitted)

\* C14 witness: a tick that collected a coin emitted its snapshot.
C14_Witness ==
    /\ lastOp = "animate" /\ score = pre.score + 1
    /\ Count("onUpdateStats") = 1
    /\ emitted[Len(emitted)] = StatsEvent(score, speed, distance)
    /\ distance > 0 /\ speed > BASE_SPEED

\* C15: a tick that begins in Running emits onUpdateStats exactly once, a
\* tick that begins in Idle or GameOver never does, and no other operation
\* emits it.
C15_StatsOncePerRunningTick ==
    Count("onUpdateStats") =
        IF lastOp = "animate" /\ pre.isRunning /\ ~pre.isGameOver THEN 1 ELSE 0

\* C15 witness: the tick that crashed emitted its one snapshot.
C15_Witness ==
    /\ lastOp = "animate" /\ pre.isRunning /\ ~pre.isGameOver
    /\ isGameOver /\ Count("onGameOver") >= 1
    /\ Count("onUpdateStats") = 1

\* C15 witness of the other half: a tick of a game that is over.
C15_WitnessIdle ==
    /\ lastOp = "animate" /\ pre.isGameOver /\ Count("onUpdateStats") = 0

Callbacks(evs) ==
    {i \in DOMAIN evs : evs[i].cb \in {"onUpdateStats", "onGameOver"}}

\* C16: after teardown no frame callback is registered, so no step is a
\* tick; the positions, counters and entities change no more unless the
\* parent calls the action surface, and no callback is emitted.
C16_NoTickAfterTeardown ==
    /\ [](tornDown => pending = {})
    /\ [](~tornDown => pending = {requestRef})
    /\ [][tornDown =>
            /\ lastOp' \in {"startGame", "resetGame", "moveLeft",
                            "moveRight", "jump"}
            /\ Callbacks(emitted') = {}
            /\ lastOp' # "resetGame" =>
                   UNCHANGED <<score, speed, distance, runnerX, runnerY,
                               obstacles, coins>>]_vars

\* C16 witness: the component was torn down in the middle of a run, with an
\* obstacle on the track and the runner in mid-air, after frames had run.
C16_Witness ==
    /\ tornDown /\ lastOp = "teardown"
    /\ Running /\ ticks > 1 /\ isJumping /\ Len(obstacles) > 0

\* The tick just run spawned obstacle k in the centre lane, with the runner
\* in the centre lane on the ground.
SpawnedHeadOn(k) ==
    /\ lastOp = "animate" /\ ticks = k + 1
    /\ lane = 0 /\ ~isJumping /\ runnerY = 0
    /\ \E i \in DOMAIN obstacles :
           obstacles[i].id = k /\ obstacles[i].x = 0

\* C17: an obstacle spawned in lane 0 while the runner is in lane 0 on the
\* ground, followed by ticks and no moveLeft, moveRight, jump or resetGame,
\* leads to GameOver while that obstacle is still in the store; and the
\* score onGameOver reports is the score before the tick's own coin loop,
\* i.e. the number of coins collected up to then.
C17_HeadOnLeadsToGameOver ==
    /\ \A k \in 0..(SpawnWindow - 1) :
           SpawnedHeadOn(k) ~>
               (isGameOver /\ \E i \in DOMAIN obstacles : obstacles[i].id = k)
    /\ [](\A i \in DOMAIN emitted :
              emitted[i].cb = "onGameOver" =>
                  /\ emitted[i].score = pre.score
                  /\ emitted[i].score =
                         Cardinality(collected) - Count("coinSound"))

\* C17 witness: the head-on obstacle spawned on the second tick has crashed
\* the game, after a coin was collected on the way, and is still in the store.
C17_Witness ==
    /\ lastOp = "animate" /\ isGameOver /\ Count("onGameOver") = 1
    /\ lane = 0 /\ runnerY = 0
    /\ \E i \in DOMAIN obstacles :
           obstacles[i].id = 1 /\ obstacles[i].x = 0
    /\ emitted[2].score = 1

\* C18 (as amended): in a Running tick the collision tests read each
\* entity's depth after that tick's translation by speed, and the runner's
\* pose after that tick's physics: the tick ends in GameOver exactly when
\* some obstacle passes the test at z + speed, and it collects exactly the
\* coins that pass theirs at z + speed.
C18_CollisionAfterTranslation ==
    [][(Running /\ animate) =>
          /\ isGameOver' <=>
                 \E i \in DOMAIN obstacles :
                     ObstacleHit(obstacles[i].z + speed, obstacles[i].x,
                                 runnerX', runnerY')
          /\ \A i \in DOMAIN coins :
                 coins[i].id \in collected' <=>
                     CoinHit(coins[i], coins[i].z + speed, runnerX', runnerY')
      ]_vars

\* C18 witness: a tick crashed into an obstacle that was still outside the
\* band before the tick's translation (the speed is at least the base speed).
C18_Witness ==
    /\ lastOp = "animate" /\ pre.isRunning /\ ~pre.isGameOver /\ isGameOver
    /\ \E i \in DOMAIN obstacles :
           /\ obstacles[i].z > 0 - OBSTACLE_BAND
           /\ obstacles[i].z - BASE_SPEED <= 0 - OBSTACLE_BAND
           /\ Abs(obstacles[i].x - runnerX) < OBSTACLE_XDIST

\* C18 (as claimed): the collision tests read each entity's depth from
\* before the tick's translation.
C18_CollisionBeforeTranslation ==
    [][(Running /\ animate) =>
          /\ isGameOver' <=>
                 \E i \in DOMAIN obstacles :
                     ObstacleHit(obstacles[i].z, obstacles[i].x,
                                 runnerX', runnerY')
          /\ \A i \in DOMAIN coins :
                 coins[i].id \in collected' <=>
                     CoinHit(coins[i], coins[i].z, runnerX', runnerY')
      ]_vars

\* C19: between ticks the runner's height is never negative and is 0
\* whenever isJumping is false; a tick in which the descent reaches or
\* passes the ground leaves the height at exactly 0 and clears isJumping.
C19_HeightClamped ==
    /\ [](runnerY >= 0 /\ (~isJumping => runnerY = 0))
    /\ [][(animate /\ isJumping /\ runnerY + jumpVelocity <= 0) =>
              (runnerY' = 0 /\ ~isJumping')]_vars

\* C19 witness: a tick landed the runner from a descent.
C19_Witness ==
    /\ lastOp = "animate" /\ pre.isJumping /\ ~isJumping
    /\ runnerY = 0 /\ jumpVelocity < 0

Ids(store) == {store[i].id : i \in DOMAIN store}

LaneCentres == {l * LANE_WIDTH : l \in Lanes}

\* What a step may do to the two stores.
LifecycleStep ==
    IF lastOp' = "resetGame"
    THEN obstacles' = << >> /\ coins' = << >>
    ELSE IF Running /\ lastOp' = "animate"
    THEN /\ Cardinality(Ids(obstacles') \ Ids(obstacles)) <= 1
         /\ Cardinality(Ids(coins') \ Ids(coins)) <= 1
         /\ \A j \in DOMAIN obstacles' :
                obstacles'[j].id \notin Ids(obstacles) =>
                    /\ obstacles'[j].z = SPAWN_Z + speed
                    /\ obstacles'[j].x \in LaneCentres
         /\ \A j \in DOMAIN coins' :
                coins'[j].id \notin Ids(coins) =>
                    /\ coins'[j].z = SPAWN_Z + speed
                    /\ coins'[j].x \in LaneCentres
         /\ \A i \in DOMAIN obstacles :
                obstacles[i].id \notin Ids(obstacles') =>
                    obstacles[i].z + speed > CULL_Z
         /\ \A i \in DOMAIN coins :
                coins[i].id \notin Ids(coins') =>
                    \/ coins[i].id \in collected'
                    \/ coins[i].z + speed > CULL_Z
    ELSE UNCHANGED <<obstacles, coins>>

\* C20: entities are created at depth -150 (and translated once by the
\* tick that creates them) in one of the three lane centres, at most one
\* obstacle and one coin per Running tick; between ticks no live entity is
\* beyond z = 10; an entity leaves its store only when a coin is collected,
\* when its z has exceeded 10, or by resetGame.
C20_EntityLifecycle ==
    /\ [](/\ \A i \in DOMAIN obstacles :
                obstacles[i].z <= CULL_Z /\ obstacles[i].x \in LaneCentres
          /\ \A i \in DOMAIN coins :
                coins[i].z <= CULL_Z /\ coins[i].x \in LaneCentres)
    /\ [][LifecycleStep]_vars

\* C20 witness: a tick culled an obstacle that had passed the runner and
\* left another one on the track.
C20_Witness ==
    /\ lastOp = "animate" /\ pre.isRunning /\ ~pre.isGameOver /\ ~isGameOver
    /\ Len(obstacles) = 1 /\ pre.nObstacles = 2
    /\ obstacles[1].z > OBSTACLE_BAND

\* C21: moveLeft and moveRight change nothing of the game but lane, jump
\* changes nothing but isJumping and jumpVelocity; in particular none of
\* them changes score, speed, distance, isRunning, isGameOver, the runner's
\* position or an entity, in Idle, Running or GameOver.
C21_InputsWriteOnlyLaneAndJump ==
    /\ [][lastOp' \in {"moveLeft", "moveRight"} =>
              UNCHANGED <<score, speed, speedBits, distance, isRunning,
                          isGameOver, isJumping, jumpVelocity, runnerX,
                          runnerY, obstacles, coins>>]_vars
    /\ [][lastOp' = "jump" =>
              UNCHANGED <<score, speed, speedBits, distance, isRunning,
                          isGameOver, lane, runnerX, runnerY, obstacles,
                          coins>>]_vars

\* C21 witness: moveLeft was accepted in Idle, before any startGame.
C21_Witness ==
    /\ lastOp = "moveLeft" /\ ~pre.isRunning /\ ~pre.isGameOver
    /\ lane = pre.lane - 1 /\ ticks = 0

\* C21 witness for jump: it was accepted in a Running game with entities
\* on the track.
C21_WitnessJump ==
    /\ lastOp = "jump" /\ pre.isRunning /\ ~pre.isJumping /\ isJumping
    /\ jumpVelocity = JUMP_IMPULSE /\ Len(obstacles) > 0

\* C22: isRunning and isGameOver are never both true, whatever the
\* interleaving of startGame, resetGame, inputs and ticks: every state is
\* Idle (false, false), Running (true, false) or GameOver (false, true).
C22_FlagsExclusive ==
    <<isRunning, isGameOver>> \in
        {<<FALSE, FALSE>>, <<TRUE, FALSE>>, <<FALSE, TRUE>>}

\* C22 witness: a tick that began in Running crashed and left GameOver.
C22_Witness ==
    /\ lastOp = "animate" /\ pre.isRunning /\ ~pre.isGameOver
    /\ isGameOver /\ ~isRunning

\* C22 witnesses of the other two combinations: Idle after frames and
\* inputs, and Running entered again by startGame from GameOver.
C22_WitnessIdle ==
    ~isRunning /\ ~isGameOver /\ lastOp = "animate" /\ lane # 0

C22_WitnessRunning ==
    isRunning /\ ~isGameOver /\ lastOp = "startGame" /\ pre.isGameOver

\* C23: the score passed to onGameOver is final: the step that invokes
\* onGameOver leaves score, distance and speed as they were when it was
\* invoked (their values before the tick, the obstacle loop being the first
\* to run) and reports the score the state ends with, and no later step
\* changes the three before resetGame or startGame.
C23_ReportedScoreIsFinal ==
    [][/\ (\E i \in DOMAIN emitted' : emitted'[i].cb = "onGameOver") =>
              /\ \A i \in DOMAIN emitted' :
                     emitted'[i].cb = "onGameOver" =>
                         emitted'[i].score = score'
              /\ UNCHANGED <<score, distance, speed>>
       /\ (isGameOver /\ lastOp' \notin {"resetGame", "startGame"}) =>
              UNCHANGED <<score, distance, speed>>
      ]_vars

\* What a Running tick may do to an entity that has not reached its band,
\* and which entities it may cull.
NoTunnelStep ==
    (Running /\ lastOp' = "animate") =>
        /\ \A i \in DOMAIN obstacles :
               /\ obstacles[i].z <= 0 - OBSTACLE_BAND =>
                      \E j \in DOMAIN obstacles' :
                          /\ obstacles'[j].id = obstacles[i].id
                          /\ obstacles'[j].z < OBSTACLE_BAND
               /\ obstacles[i].id \notin Ids(obstacles') => obstacles[i].inBand
        /\ \A i \in DOMAIN coins :
               /\ coins[i].z <= 0 - COIN_BAND =>
                      \/ coins[i].id \in collected'
                      \/ \E j \in DOMAIN coins' :
                             /\ coins'[j].id = coins[i].id
                             /\ coins'[j].z < COIN_BAND
               /\ (coins[i].id \notin Ids(coins')
                       /\ coins[i].id \notin collected') => coins[i].inBand

\* C24: no entity passes from before its collision band to behind it in
\* one tick, so every obstacle behind the band (-2, 2) and every coin behind
\* the band (-1.5, 1.5) was found inside the band by the test of some
\* earlier tick, and every entity a Running tick culls was.
C24_NoTunnelling ==
    /\ [](/\ \A i \in DOMAIN obstacles :
                /\ obstacles[i].z >= OBSTACLE_BAND => obstacles[i].inBand
                /\ obstacles[i].inBand => obstacles[i].z > 0 - OBSTACLE_BAND
          /\ \A i \in DOMAIN coins :
                /\ coins[i].z >= COIN_BAND => coins[i].inBand
                /\ coins[i].inBand => coins[i].z > 0 - COIN_BAND)
    /\ [][NoTunnelStep]_vars

\* C24 witness: at a speed above the cap, a tick of a run without a crash
\* culled an obstacle.
C24_Witness ==
    /\ lastOp = "animate" /\ pre.isRunning /\ ~pre.isGameOver /\ ~crashed
    /\ speed > MAX_SPEED
    /\ Len(obstacles) < pre.nObstacles

\* C24 witness: a tick culled a coin that was never collected.
C24_WitnessCoin ==
    /\ lastOp = "animate" /\ pre.isRunning /\ ~pre.isGameOver
    /\ speed > MAX_SPEED
    /\ Len(coins) < pre.nCoins /\ score = pre.score

\* The same program after the same construction, under a player allowed one
\* accepted call more before the first resetGame, and spawn draws that pick
\* the centre lane: the sessions in which a second jump follows the first.
InitEncore ==
    /\ score = 0
    /\ speed = BASE_SPEED
    /\ distance = 0
    /\ lane = 0
    /\ isRunning = FALSE
    /\ isGameOver = FALSE
    /\ isJumping = FALSE
    /\ jumpVelocity = 0
    /\ runnerX = 0
    /\ runnerY = 0
    /\ obstacles = << >>
    /\ coins = << >>
    /\ emitted = << >>
    /\ ticks = 0
    /\ inputs = 0 - MaxInputs
    /\ collected = {}
    /\ crashed = FALSE
    /\ soundsSinceFrame = 0
    /\ soundsSinceCleared = 0
    /\ lastOp = "init"
    /\ pre = Snapshot
    /\ speedBits = BASE_SPEED_BITS
    /\ spawnFrom = 0
    /\ pending = {1}
    /\ requestRef = 1
    /\ tornDown = FALSE

NextEncore ==
    \/ animate /\ CentreLaneDraws
    \/ startGame
    \/ resetGame
    \/ moveLeft
    \/ moveRight
    \/ jump

SpecEncore == InitEncore /\ [][NextEncore]_vars

\* The tick of a jump that lands: the heights of an impulse JUMP_IMPULSE
\* under GRAVITY per tick sum to zero at tick 2 * JUMP_IMPULSE / GRAVITY + 1.
LandingTick == (2 * JUMP_IMPULSE) \div GRAVITY + 1

\* The runner is k ticks into a jump.
JumpTick(k) ==
    /\ jumpVelocity = JUMP_IMPULSE - k * GRAVITY
    /\ runnerY = k * JUMP_IMPULSE - GRAVITY * ((k * (k - 1)) \div 2)

\* C25: every jump ends.  A runner in a jump is fewer than 41 ticks into
\* it; every tick takes it one tick further, whatever the game's state, and
\* the 41st lands it at height 0 with isJumping false; the calls between
\* ticks leave the jump as it is or (resetGame) end it at height 0; a
\* runner not in a jump is at height 0, and outside GameOver jump() starts
\* a new jump from there.
C25_JumpLandsWithin41Ticks ==
    /\ [](IF isJumping
          THEN \E k \in 0..(LandingTick - 1) : JumpTick(k)
          ELSE runnerY = 0)
    /\ [][isJumping =>
              IF lastOp' = "animate"
              THEN IF JumpTick(LandingTick - 1)
                   THEN ~isJumping' /\ runnerY' = 0
                   ELSE /\ isJumping'
                        /\ jumpVelocity' = jumpVelocity - GRAVITY
                        /\ runnerY' = runnerY + jumpVelocity
              ELSE \/ ~isJumping' /\ runnerY' = 0
                   \/ UNCHANGED <<isJumping, jumpVelocity, runnerY>>]_vars
    /\ [][(~isJumping /\ ~isGameOver /\ lastOp' = "jump") =>
              isJumping' /\ jumpVelocity' = JUMP_IMPULSE /\ runnerY' = 0]_vars

\* C25 witness: the 41st tick of a jump landed the runner, in a game that a
\* crash had ended while the runner was in the air.
C25_Witness ==
    /\ lastOp = "animate" /\ pre.isJumping /\ ~isJumping /\ runnerY = 0
    /\ jumpVelocity = JUMP_IMPULSE - LandingTick * GRAVITY
    /\ pre.isGameOver

\* C25 witness: the 41st tick of a jump landed the runner in Running.
C25_WitnessRunning ==
    /\ lastOp = "animate" /\ pre.isJumping /\ ~isJumping /\ runnerY = 0
    /\ jumpVelocity = JUMP_IMPULSE - LandingTick * GRAVITY
    /\ pre.isRunning /\ ~pre.isGameOver /\ Len(obstacles) > 0

\* C25 witness: in a game not yet started, a second jump begins after the
\* first one has landed (the runner is in the centre lane, so both accepted
\* calls were jumps).
C25_WitnessAgain ==
    /\ lastOp = "jump" /\ ~pre.isJumping /\ isJumping
    /\ ~isRunning /\ ~isGameOver
    /\ inputs = MaxInputs /\ lane = 0 /\ runnerX = 0

====
